---- MODULE Spec2Model ----
(***************************************************************************)
(* Model of app.py (cheby): the restricted integer-expression evaluator,   *)
(* the quadratic-field ring arithmetic, the 2x2 matrix engine, the         *)
(* non-residue search and the Chebyshev/Lucas style primality test.        *)
(*                                                                         *)
(* Python values are modelled as tagged records:                           *)
(*   plain int            [t |-> "int", val |-> k]                         *)
(*   QuadraticFieldElement [t |-> "QFE", u, v, c, n]                       *)
(*   a raised exception    [t |-> "TypeError"] / [t |-> "AssertionError"]  *)
(* Lists of length two are tuples, indexed from 1 where Python indexes     *)
(* from 0.                                                                 *)
(***************************************************************************)
EXTENDS Integers, Sequences, FiniteSets, TLC

VARIABLES pc, n, p, a, M, exponent, result, base, e, xp, verdict, expr, out, args, ret

vars == <<pc, n, p, a, M, exponent, result, base, e, xp, verdict, expr, out, args, ret>>

(***************************************************************************)
(* Bounds of the model.                                                    *)
(***************************************************************************)
MaxN == 100
MaxNeg == 2
MaxP == 47
MaxSquareRoot == 31
MaxLit == 2
MaxE == 6
MaxA == 2
MaxMod == 5

(***************************************************************************)
(* Ring elements.                                                          *)
(***************************************************************************)
Int_(k) == [t |-> "int", val |-> k]

TypeError == [t |-> "TypeError"]

AssertionError == [t |-> "AssertionError"]

None == [t |-> "None"]

isQFE(x) == x.t = "QFE"

isInt(x) == x.t = "int"

isErr(x) == x.t \in {"TypeError", "AssertionError"}

\* __init__ without the reduction of v (a plausible slip in the constructor).
QuadraticFieldElement_noreduce(u, v, c, nn) ==
    [t |-> "QFE", u |-> u % nn, v |-> v, c |-> c, n |-> nn]

QuadraticFieldElement(u, v, c, nn) ==
    [t |-> "QFE", u |-> u % nn, v |-> v % nn, c |-> c, n |-> nn]

\* the implicit lift "if not isinstance(other, QuadraticFieldElement)"
lift(self, other) ==
    IF isQFE(other) THEN other
    ELSE QuadraticFieldElement(other.val, 0, self.c, self.n)

__neg__(self) == QuadraticFieldElement(-self.u, -self.v, self.c, self.n)

__add__(self, other) ==
    LET o == lift(self, other)
    IN  IF ~(self.c = o.c /\ self.n = o.n) THEN AssertionError
        ELSE QuadraticFieldElement(self.u + o.u, self.v + o.v, self.c, self.n)

__sub__(self, other) ==
    LET o == lift(self, other)
    IN  __add__(self, __neg__(o))

__mul__(self, other) ==
    LET o == lift(self, other)
    IN  IF ~(self.c = o.c /\ self.n = o.n) THEN AssertionError
        ELSE LET u == (self.u * o.u + self.v * o.v * self.c) % self.n
                 v == (self.u * o.v + self.v * o.u) % self.n
             IN  QuadraticFieldElement(u, v, self.c, self.n)

\* __rmul__ scaling u only
__rmul__u_only(self, scalar) ==
    QuadraticFieldElement(self.u * scalar, self.v, self.c, self.n)

__rmul__(self, scalar) ==
    QuadraticFieldElement(self.u * scalar, self.v * scalar, self.c, self.n)

__eq__(self, other) ==
    /\ isQFE(other)
    /\ self.u = other.u
    /\ self.v = other.v
    /\ self.c = other.c
    /\ self.n = other.n

(***************************************************************************)
(* Python's binary operators on ring values: the left operand's method is  *)
(* tried first; an int on the left returns NotImplemented for a field      *)
(* element on the right, and the reflected method is used if the class     *)
(* defines one (only __rmul__ is defined).                                 *)
(***************************************************************************)
add(x, y) ==
    IF isErr(x) THEN x
    ELSE IF isErr(y) THEN y
    ELSE IF isQFE(x) THEN __add__(x, y)
    ELSE IF isQFE(y) THEN TypeError
    ELSE Int_(x.val + y.val)

sub(x, y) ==
    IF isErr(x) THEN x
    ELSE IF isErr(y) THEN y
    ELSE IF isQFE(x) THEN __sub__(x, y)
    ELSE IF isQFE(y) THEN TypeError
    ELSE Int_(x.val - y.val)

mul(x, y) ==
    IF isErr(x) THEN x
    ELSE IF isErr(y) THEN y
    ELSE IF isQFE(x) THEN __mul__(x, y)
    ELSE IF isQFE(y) THEN __rmul__(y, x.val)
    ELSE Int_(x.val * y.val)

neg(x) ==
    IF isErr(x) THEN x
    ELSE IF isQFE(x) THEN __neg__(x)
    ELSE Int_(-x.val)

\* x == y
eq(x, y) ==
    IF isQFE(x) THEN __eq__(x, y)
    ELSE IF isQFE(y) THEN __eq__(y, x)
    ELSE x.val = y.val

(***************************************************************************)
(* Matrix engine.                                                          *)
(***************************************************************************)
sqrtc(c, nn) == QuadraticFieldElement(0, 1, c, nn)

\* xmat with the sign of the field -1 lost
xmat_plus1(nn, x) ==
    LET two_a == add(x, x)
        neg1  == IF ~isQFE(x) THEN Int_(-1) ELSE QuadraticFieldElement(1, 0, x.c, x.n)
        one   == IF ~isQFE(x) THEN Int_(1) ELSE QuadraticFieldElement(1, 0, x.c, x.n)
        zero  == IF ~isQFE(x) THEN Int_(0) ELSE QuadraticFieldElement(0, 0, x.c, x.n)
    IN  <<<<two_a, neg1>>, <<one, zero>>>>

xmat(nn, x) ==
    LET two_a == add(x, x)
        neg1  == IF ~isQFE(x) THEN Int_(-1) ELSE QuadraticFieldElement(-1, 0, x.c, x.n)
        one   == IF ~isQFE(x) THEN Int_(1) ELSE QuadraticFieldElement(1, 0, x.c, x.n)
        zero  == IF ~isQFE(x) THEN Int_(0) ELSE QuadraticFieldElement(0, 0, x.c, x.n)
    IN  <<<<two_a, neg1>>, <<one, zero>>>>

\* mat_mul, branch "isinstance(B[0], list)": matrix times matrix
mat_mul(A, B) ==
    << << add(mul(A[1][1], B[1][1]), mul(A[1][2], B[2][1])),
          add(mul(A[1][1], B[1][2]), mul(A[1][2], B[2][2])) >>,
       << add(mul(A[2][1], B[1][1]), mul(A[2][2], B[2][1])),
          add(mul(A[2][1], B[1][2]), mul(A[2][2], B[2][2])) >> >>

\* mat_mul, last line: matrix times 2-vector
mat_mul_vec(A, B) ==
    << add(mul(A[1][1], B[1]), mul(A[1][2], B[2])),
       add(mul(A[2][1], B[1]), mul(A[2][2], B[2])) >>

\* the accumulator mat_pow starts from
mat_pow_result0(MM) ==
    IF isQFE(MM[1][1])
    THEN LET one  == QuadraticFieldElement(1, 0, MM[1][1].c, MM[1][1].n)
             zero == QuadraticFieldElement(0, 0, MM[1][1].c, MM[1][1].n)
         IN  <<<<one, zero>>, <<zero, one>>>>
    ELSE <<<<Int_(1), Int_(0)>>, <<Int_(0), Int_(1)>>>>

\* the loop body testing the bit after the shift
mat_pow_body_shift_first(st) ==
    [ result |-> IF (st.e \div 2) % 2 = 1 THEN mat_mul(st.base, st.result) ELSE st.result,
      base   |-> mat_mul(st.base, st.base),
      e      |-> st.e \div 2 ]

\* one iteration of "while e > 0" on the loop state [result, base, e]
mat_pow_body(st) ==
    [ result |-> IF st.e % 2 = 1 THEN mat_mul(st.base, st.result) ELSE st.result,
      base   |-> mat_mul(st.base, st.base),
      e      |-> st.e \div 2 ]

RECURSIVE mat_pow_loop(_)
\* the loop "while e > 0" run to its end
mat_pow_loop(st) == IF st.e > 0 THEN mat_pow_loop(mat_pow_body(st)) ELSE st

mat_pow(MM, ex) ==
    mat_pow_loop([result |-> mat_pow_result0(MM), base |-> MM, e |-> ex]).result

(***************************************************************************)
(* sympy helpers, by their mathematical definition.                        *)
(***************************************************************************)
IsPrimeNumber(k) == k >= 2 /\ \A d \in 2..(k - 1) : k % d /= 0

nextprime(k) == CHOOSE q \in (k + 1)..(2 * k + 2) :
                    IsPrimeNumber(q) /\ \A r \in (k + 1)..(q - 1) : ~IsPrimeNumber(r)

\* is_square with the root searched in too short a range
is_square_short(k) == k >= 0 /\ \E r \in 0..(k \div 4) : r * r = k

is_square(k) == k >= 0 /\ \E r \in 0..k : r * r = k

\* Legendre symbol (x | q) for an odd prime q
Legendre(x, q) ==
    IF x % q = 0 THEN 0
    ELSE IF \E r \in 1..(q - 1) : (r * r) % q = x % q THEN 1
    ELSE -1

SmallestPrimeFactor(k) == CHOOSE d \in 2..k : k % d = 0 /\ \A r \in 2..(d - 1) : k % r /= 0

RECURSIVE kronecker_symbol(_, _)
\* Kronecker symbol (x | k) for odd k >= 1: the product of the Legendre
\* symbols over the prime factorisation of k (the Jacobi symbol).
kronecker_symbol(x, k) ==
    IF k = 1 THEN 1
    ELSE LET q == SmallestPrimeFactor(k)
         IN  Legendre(x, q) * kronecker_symbol(x, k \div q)

(***************************************************************************)
(* Non-residue search and primality engine.                                *)
(***************************************************************************)
oddprime_p0 == 3

\* the test of oddprime taken as "symbol is not +1"
oddprime_found_not1(q, nn) == kronecker_symbol(q, nn) /= 1

\* oddprime: the loop's exit test
oddprime_found(q, nn) == kronecker_symbol(q, nn) = -1

RECURSIVE oddprime_from(_, _)
\* oddprime: the loop from candidate q on
oddprime_from(q, nn) ==
    IF oddprime_found(q, nn) THEN q ELSE oddprime_from(nextprime(q), nn)

oddprime(nn) == oddprime_from(oddprime_p0, nn)

\* the tail of myisprime comparing with 1 + sqrt(c)
myisprime_tail_plus(nn, x, Mn) ==
    LET one    == IF ~isQFE(x) THEN Int_(1) ELSE QuadraticFieldElement(1, 0, x.c, x.n)
        xp_    == mat_mul_vec(Mn, <<x, one>>)
        c      == IF isQFE(x) THEN x.c ELSE oddprime(nn)
        target == QuadraticFieldElement(1, 1, c, nn)
    IN  [xp |-> xp_, target |-> target, ret |-> eq(xp_[2], target)]

\* myisprime(n, a) after mat_pow has returned Mn
myisprime_tail(nn, x, Mn) ==
    LET one    == IF ~isQFE(x) THEN Int_(1) ELSE QuadraticFieldElement(1, 0, x.c, x.n)
        xp_    == mat_mul_vec(Mn, <<x, one>>)
        c      == IF isQFE(x) THEN x.c ELSE oddprime(nn)
        target == QuadraticFieldElement(1, -1, c, nn)
    IN  [xp |-> xp_, target |-> target, ret |-> eq(xp_[2], target)]

(***************************************************************************)
(* Expression evaluator.  A parsed tree (the result of ast.parse) is a     *)
(* record tagged by its node class.  Python numbers are Int_(k) and        *)
(* floats; a float is kept as the exact fraction num/den with den > 0      *)
(* (rounding of the binary representation is not modelled).  The outcome   *)
(* of an evaluation is either a returned value or a raised exception,      *)
(* together with the number of operator calls                              *)
(* (_binops[op_type](left, right), _unops[op_type](operand)) made so far.  *)
(***************************************************************************)
Float(num, den) ==
    IF den < 0 THEN [t |-> "float", num |-> -num, den |-> -den]
    ELSE [t |-> "float", num |-> num, den |-> den]

isFloat(x) == x.t = "float"

numer(x) == IF isInt(x) THEN x.val ELSE x.num

denom(x) == IF isInt(x) THEN 1 ELSE x.den

ZeroDivisionError == [t |-> "ZeroDivisionError"]

RECURSIVE ipow(_, _)
\* x ** k for k >= 0 on integers
ipow(x, k) == IF k = 0 THEN 1 ELSE x * ipow(x, k - 1)

\* Python's floor division on integers, y /= 0
floor_div(x, y) == IF y > 0 THEN x \div y ELSE (-x) \div (-y)

operator_add(l, r) ==
    IF isInt(l) /\ isInt(r) THEN Int_(l.val + r.val)
    ELSE Float(numer(l) * denom(r) + numer(r) * denom(l), denom(l) * denom(r))

operator_sub(l, r) ==
    IF isInt(l) /\ isInt(r) THEN Int_(l.val - r.val)
    ELSE Float(numer(l) * denom(r) - numer(r) * denom(l), denom(l) * denom(r))

operator_mul(l, r) ==
    IF isInt(l) /\ isInt(r) THEN Int_(l.val * r.val)
    ELSE Float(numer(l) * numer(r), denom(l) * denom(r))

operator_floordiv(l, r) ==
    IF numer(r) = 0 THEN ZeroDivisionError
    ELSE IF isInt(l) /\ isInt(r) THEN Int_(floor_div(l.val, r.val))
    ELSE Float(floor_div(numer(l) * denom(r), denom(l) * numer(r)), 1)

operator_mod(l, r) ==
    IF numer(r) = 0 THEN ZeroDivisionError
    ELSE IF isInt(l) /\ isInt(r) THEN Int_(l.val - r.val * floor_div(l.val, r.val))
    ELSE operator_sub(l, operator_mul(r, operator_floordiv(l, r)))

\* operator.pow with an int exponent (the trees enumerated below never
\* give a float exponent): a negative exponent makes Python compute in
\* floats, and 0 ** negative raises ZeroDivisionError
operator_pow(l, r) ==
    IF r.val >= 0
    THEN IF isInt(l) THEN Int_(ipow(l.val, r.val))
         ELSE Float(ipow(l.num, r.val), ipow(l.den, r.val))
    ELSE IF numer(l) = 0 THEN ZeroDivisionError
    ELSE Float(ipow(denom(l), -r.val), ipow(numer(l), -r.val))

operator_pos(x) == x

operator_neg(x) == IF isInt(x) THEN Int_(-x.val) ELSE Float(-x.num, x.den)

_binops ==
    [ Add |-> "add", Sub |-> "sub", Mult |-> "mul", Div |-> "floordiv",
      FloorDiv |-> "floordiv", Mod |-> "mod", Pow |-> "pow" ]

_unops == [ UAdd |-> "pos", USub |-> "neg" ]

operator_call(f, l, r) ==
    CASE f = "add" -> operator_add(l, r)
      [] f = "sub" -> operator_sub(l, r)
      [] f = "mul" -> operator_mul(l, r)
      [] f = "floordiv" -> operator_floordiv(l, r)
      [] f = "mod" -> operator_mod(l, r)
      [] f = "pow" -> operator_pow(l, r)

operator_call1(f, x) ==
    CASE f = "pos" -> operator_pos(x)
      [] f = "neg" -> operator_neg(x)

Return(v, k) == [raised |-> "", value |-> v, applied |-> k]

Raise(err, k) == [raised |-> err, value |-> None, applied |-> k]

\* the Constant branch returning the literal whatever its type
evaluate_Constant_any(node) == Return(node.value, 0)

\* _evaluate, branch "isinstance(node, ast.Constant)"
evaluate_Constant(node) ==
    IF isInt(node.value) THEN Return(node.value, 0)
    ELSE Raise("ValueError", 0)

\* _evaluate, after the UnaryOp branch: the test "isinstance(node, ast.Paren)"
\* evaluates the attribute ast.Paren, which the ast module does not have
evaluate_other(node) == Raise("AttributeError", 0)

RECURSIVE _evaluate(_)
_evaluate(node) ==
    IF node.node = "Expression" THEN _evaluate(node.body)
    ELSE IF node.node = "Constant" THEN evaluate_Constant(node)
    ELSE IF node.node = "BinOp" THEN
        IF node.op \notin DOMAIN _binops THEN Raise("ValueError", 0)
        ELSE LET left == _evaluate(node.left)
             IN  IF left.raised /= "" THEN left
                 ELSE LET right == _evaluate(node.right)
                          k     == left.applied + right.applied
                      IN  IF right.raised /= "" THEN Raise(right.raised, k)
                          ELSE LET r == operator_call(_binops[node.op], left.value, right.value)
                               IN  IF r.t \in {"int", "float"} THEN Return(r, k + 1)
                                   ELSE Raise(r.t, k + 1)
    ELSE IF node.node = "UnaryOp" THEN
        IF node.op \notin DOMAIN _unops THEN Raise("ValueError", 0)
        ELSE LET operand == _evaluate(node.operand)
             IN  IF operand.raised /= "" THEN operand
                 ELSE Return(operator_call1(_unops[node.op], operand.value), operand.applied + 1)
    ELSE evaluate_other(node)

\* parse_int_expr on the tree ast.parse(expr, mode='eval') returned
parse_int_expr(tree) == _evaluate([node |-> "Expression", body |-> tree])

(***************************************************************************)
(* The parsed inputs: left-nested trees over small literals.               *)
(***************************************************************************)
Constant(v) == [node |-> "Constant", value |-> v]

Name == [node |-> "Name"]

Call == [node |-> "Call"]

BinOp(op, l, r) == [node |-> "BinOp", op |-> op, left |-> l, right |-> r]

UnaryOp(op, x) == [node |-> "UnaryOp", op |-> op, operand |-> x]

BinOpKinds == {"Add", "Sub", "Mult", "Div", "FloorDiv", "Mod", "Pow", "BitAnd"}

UnaryOpKinds == {"UAdd", "USub", "Invert"}

IntLeaves(maxlit) == {Constant(Int_(k)) : k \in 0..maxlit}

Leaves(maxlit) == IntLeaves(maxlit) \cup {Constant(Float(3, 2)), Name, Call}

Atoms(maxlit) ==
    Leaves(maxlit)
    \cup {UnaryOp(op, x) : op \in {"UAdd", "USub"}, x \in IntLeaves(maxlit)}
    \cup {UnaryOp("Invert", Constant(Int_(1))), UnaryOp("USub", Name)}

Flat(maxlit) ==
    {BinOp(op, x, y) : op \in BinOpKinds, x \in Atoms(maxlit), y \in Atoms(maxlit)}

Exprs(maxlit) ==
    Atoms(maxlit) \cup Flat(maxlit)
    \cup {UnaryOp(op, x) : op \in UnaryOpKinds, x \in Flat(maxlit)}
    \cup {BinOp(op, x, y) : op \in BinOpKinds, x \in Flat(maxlit),
                            y \in IntLeaves(maxlit) \cup {Name}}

PrimeIdle ==
    /\ n = 0
    /\ p = 0
    /\ a = None
    /\ xp = <<>>
    /\ verdict = "none"

MatIdle ==
    /\ M = <<>>
    /\ exponent = 0
    /\ result = <<>>
    /\ base = <<>>
    /\ e = 0

CallIdle ==
    /\ args = None
    /\ ret = None

EvalIdle ==
    /\ expr = None
    /\ out = None

InitEval ==
    /\ pc = "parse_int_expr"
    /\ expr \in Exprs(MaxLit)
    /\ out = None
    /\ PrimeIdle
    /\ MatIdle
    /\ CallIdle

\* n = parse_int_expr(expression), on the parsed tree
ParseIntExpr ==
    /\ pc = "parse_int_expr"
    /\ out' = parse_int_expr(expr)
    /\ pc' = "evaluated"
    /\ UNCHANGED <<expr, n, p, a, M, exponent, result, base, e, xp, verdict, args, ret>>

NextEval == ParseIntExpr

SpecEval == InitEval /\ [][NextEval]_vars

Inputs == ((-MaxNeg)..MaxN) \cup {q * q : q \in {r \in 2..MaxSquareRoot : IsPrimeNumber(r)}}

InitPrime ==
    /\ pc = "is_prime"
    /\ n \in Inputs
    /\ p = 0
    /\ a = None
    /\ xp = <<>>
    /\ verdict = "none"
    /\ MatIdle
    /\ EvalIdle
    /\ CallIdle

\* is_prime, the four early returns and the call of oddprime
IsPrimeFilter ==
    /\ pc = "is_prime"
    /\ IF n < 2 THEN verdict' = "False" /\ pc' = "done" /\ p' = p
       ELSE IF n = 2 THEN verdict' = "True" /\ pc' = "done" /\ p' = p
       ELSE IF n % 2 = 0 THEN verdict' = "False" /\ pc' = "done" /\ p' = p
       ELSE IF is_square(n) THEN verdict' = "False" /\ pc' = "done" /\ p' = p
       ELSE verdict' = verdict /\ pc' = "oddprime" /\ p' = oddprime_p0
    /\ UNCHANGED <<n, a, M, exponent, result, base, e, xp, expr, out, args, ret>>

\* oddprime: an iteration that does not return
OddprimeNext ==
    /\ pc = "oddprime"
    /\ ~oddprime_found(p, n)
    /\ p <= MaxP
    /\ p' = nextprime(p)
    /\ UNCHANGED <<pc, n, a, M, exponent, result, base, e, xp, verdict, expr, out, args, ret>>

\* oddprime returns p; is_prime builds a and calls myisprime, which builds
\* M = xmat(n, a) and enters mat_pow(M, n)
OddprimeReturn ==
    /\ pc = "oddprime"
    /\ oddprime_found(p, n)
    /\ a' = QuadraticFieldElement(1, 1, p, n)
    /\ M' = xmat(n, a')
    /\ exponent' = n
    /\ result' = mat_pow_result0(M')
    /\ base' = M'
    /\ e' = n
    /\ pc' = "mat_pow"
    /\ UNCHANGED <<n, p, xp, verdict, expr, out, args, ret>>

\* mat_pow: one iteration of the loop
MatPowLoop ==
    /\ pc = "mat_pow"
    /\ e > 0
    /\ LET st == mat_pow_body([result |-> result, base |-> base, e |-> e])
       IN  /\ result' = st.result
           /\ base' = st.base
           /\ e' = st.e
    /\ UNCHANGED <<pc, n, p, a, M, exponent, xp, verdict, expr, out, args, ret>>

\* mat_pow returns; myisprime multiplies by (a, 1) and compares with 1 - sqrt(c)
MatPowReturn ==
    /\ pc = "mat_pow"
    /\ ~(e > 0)
    /\ LET r == myisprime_tail(n, a, result)
       IN  /\ xp' = r.xp
           /\ verdict' = IF r.ret THEN "True" ELSE "False"
    /\ pc' = "done"
    /\ UNCHANGED <<n, p, a, M, exponent, result, base, e, expr, out, args, ret>>

NextPrime ==
    \/ IsPrimeFilter
    \/ OddprimeNext
    \/ OddprimeReturn
    \/ MatPowLoop
    \/ MatPowReturn

SpecPrime == InitPrime /\ [][NextPrime]_vars

FairSpecPrime == SpecPrime /\ WF_vars(NextPrime)

(***************************************************************************)
(* mat_pow on its own: every homogeneous 2x2 matrix over small scalars or  *)
(* over field elements of a small field, every exponent 0..MaxE.           *)
(***************************************************************************)
FieldParams == {<<2, 3>>, <<3, MaxMod>>}

FieldEntries(c, nn) ==
    { QuadraticFieldElement(0, 0, c, nn), QuadraticFieldElement(1, 0, c, nn),
      QuadraticFieldElement(1, 1, c, nn), QuadraticFieldElement(-1, 2, c, nn) }

ScalarEntries == {Int_(k) : k \in -1..1}

Matrices(S) == {<<<<w, x>>, <<y, z>>>> : w \in S, x \in S, y \in S, z \in S}

MatInputs ==
    Matrices(ScalarEntries)
    \cup UNION {Matrices(FieldEntries(cn[1], cn[2])) : cn \in FieldParams}

InitMat ==
    /\ pc = "call"
    /\ M \in MatInputs
    /\ exponent \in 0..MaxE
    /\ result = <<>>
    /\ base = <<>>
    /\ e = 0
    /\ args = None
    /\ ret = <<>>
    /\ PrimeIdle
    /\ EvalIdle

\* mat_pow(M, exponent) up to the loop
MatPowEnter ==
    /\ pc = "call"
    /\ result' = mat_pow_result0(M)
    /\ base' = M
    /\ e' = exponent
    /\ pc' = "mat_pow"
    /\ UNCHANGED <<n, p, a, M, exponent, xp, verdict, expr, out, args, ret>>

\* mat_pow: the loop has ended, "return result"
MatPowExit ==
    /\ pc = "mat_pow"
    /\ ~(e > 0)
    /\ ret' = result
    /\ pc' = "returned"
    /\ UNCHANGED <<n, p, a, M, exponent, result, base, e, xp, verdict, expr, out, args>>

NextMat ==
    \/ MatPowEnter
    \/ MatPowLoop
    \/ MatPowExit

SpecMat == InitMat /\ [][NextMat]_vars

FairSpecMat == SpecMat /\ WF_vars(NextMat)

(***************************************************************************)
(* The computation of myisprime before its comparison, xmat then mat_pow   *)
(* then the matrix-vector product, once on a plain scalar a and once on    *)
(* the field element QuadraticFieldElement(a, 0, c, n).                    *)
(***************************************************************************)
chain(nn, x, ex) ==
    LET MM  == xmat(nn, x)
        Mn  == mat_pow(MM, ex)
        one == IF ~isQFE(x) THEN Int_(1) ELSE QuadraticFieldElement(1, 0, x.c, x.n)
    IN  [M |-> MM, Mn |-> Mn, xp |-> mat_mul_vec(Mn, <<x, one>>)]

InitCons ==
    /\ pc = "call"
    /\ args \in [a : -MaxA..MaxA, c : {2, 3}, n : 2..MaxMod, exponent : 0..MaxE]
    /\ ret = [scalar |-> None, field |-> None]
    /\ PrimeIdle
    /\ MatIdle
    /\ EvalIdle

RunScalar ==
    /\ pc = "call"
    /\ ret.scalar = None
    /\ ret' = [ret EXCEPT !.scalar = chain(args.n, Int_(args.a), args.exponent)]
    /\ pc' = IF ret.field = None THEN "call" ELSE "returned"
    /\ UNCHANGED <<n, p, a, M, exponent, result, base, e, xp, verdict, expr, out, args>>

RunField ==
    /\ pc = "call"
    /\ ret.field = None
    /\ ret' = [ret EXCEPT !.field =
                  chain(args.n, QuadraticFieldElement(args.a, 0, args.c, args.n), args.exponent)]
    /\ pc' = IF ret.scalar = None THEN "call" ELSE "returned"
    /\ UNCHANGED <<n, p, a, M, exponent, result, base, e, xp, verdict, expr, out, args>>

NextCons ==
    \/ RunScalar
    \/ RunField

SpecCons == InitCons /\ [][NextCons]_vars

(***************************************************************************)
(* One binary ring operation between a plain int and a field element, in   *)
(* either operand order.                                                   *)
(***************************************************************************)
FieldElements(c, nn) == {QuadraticFieldElement(u, v, c, nn) : u \in 0..(nn - 1), v \in 0..(nn - 1)}

ring_op(op, x, y) ==
    CASE op = "add" -> add(x, y)
      [] op = "sub" -> sub(x, y)
      [] op = "mul" -> mul(x, y)

InitRing ==
    /\ pc = "call"
    /\ \E op \in {"add", "sub", "mul"}, s \in -MaxA..MaxA, cn \in FieldParams :
         \E x \in FieldElements(cn[1], cn[2]), scalarLeft \in BOOLEAN :
            args = [op |-> op, s |-> s, x |-> x, scalarLeft |-> scalarLeft]
    /\ ret = None
    /\ PrimeIdle
    /\ MatIdle
    /\ EvalIdle

\* s op x  or  x op s
RingOp ==
    /\ pc = "call"
    /\ ret' = IF args.scalarLeft THEN ring_op(args.op, Int_(args.s), args.x)
              ELSE ring_op(args.op, args.x, Int_(args.s))
    /\ pc' = "returned"
    /\ UNCHANGED <<n, p, a, M, exponent, result, base, e, xp, verdict, expr, out, args>>

NextRing == RingOp

SpecRing == InitRing /\ [][NextRing]_vars

(***************************************************************************)
(* Properties of the evaluator (checked under SpecEval).                   *)
(***************************************************************************)
RECURSIVE HasUnsupported(_)
\* the tree contains a node or an operator outside the whitelist
HasUnsupported(t) ==
    CASE t.node = "Constant" -> ~isInt(t.value)
      [] t.node = "BinOp" ->
            \/ t.op \notin {"Add", "Sub", "Mult", "Div", "FloorDiv", "Mod", "Pow"}
            \/ HasUnsupported(t.left)
            \/ HasUnsupported(t.right)
      [] t.node = "UnaryOp" -> t.op \notin {"UAdd", "USub"} \/ HasUnsupported(t.operand)
      [] OTHER -> TRUE

\* the errors raised at an offending node: the three ValueErrors, and the
\* AttributeError of the ast.Paren test
RejectionErrors == {"ValueError", "AttributeError"}

\* the root is a Pow whose operands evaluate and whose exponent is a
\* negative integer
PowNegativeExponent(t) ==
    /\ t.node = "BinOp" /\ t.op = "Pow"
    /\ _evaluate(t.left).raised = ""
    /\ _evaluate(t.right).raised = ""
    /\ isInt(_evaluate(t.right).value)
    /\ _evaluate(t.right).value.val < 0

\* C2: a Pow whose exponent evaluates to a negative integer makes
\* parse_int_expr fail with DomainError, and every value parse_int_expr
\* returns is an integer.
C2_PowNegativeDomainError ==
    pc = "evaluated" =>
        /\ (PowNegativeExponent(expr) => out.raised = "DomainError")
        /\ (out.raised = "" => isInt(out.value))

C4_UnsupportedIsValueError ==
    pc = "evaluated" /\ HasUnsupported(expr) => out.raised = "ValueError"

(***************************************************************************)
(* Properties of the primality engine (checked under SpecPrime).           *)
(***************************************************************************)
PrimesTable ==
    {2, 3, 5, 7, 11, 13, 17, 19, 23, 29, 31, 37, 41, 43, 47,
     53, 59, 61, 67, 71, 73, 79, 83, 89, 97}

CompositesTable == {0, 1, 4, 6, 8, 9, 15, 21, 25, 49, 100}

SquaresTable == {k * k : k \in 0..MaxSquareRoot}

Coprime(x, y) == \A d \in 2..x : ~(x % d = 0 /\ y % d = 0)

\* C1: is_prime agrees with the ground-truth tables: it returns True for
\* every prime up to 97 and False for every n in {0,1,4,6,8,9,15,21,25,49,100}.
C1_GroundTruth ==
    pc = "done" =>
        /\ (n \in PrimesTable => verdict = "True")
        /\ (n \in CompositesTable => verdict = "False")

C1_Witness ==
    /\ pc = "done" /\ n = 97 /\ verdict = "True"
    /\ e = 0 /\ xp /= <<>>

\* C5: trivial-case filtering of is_prime: n < 2 gives False, n = 2 gives
\* True, even n > 2 gives False, every perfect square gives False, in each
\* case without starting the non-residue search (p is never set); the search
\* is only ever entered with an odd, non-square n >= 3.
C5_TrivialCases ==
    /\ (pc = "done" /\ n < 2 => verdict = "False" /\ p = 0)
    /\ (pc = "done" /\ n = 2 => verdict = "True" /\ p = 0)
    /\ (pc = "done" /\ n > 2 /\ n % 2 = 0 => verdict = "False" /\ p = 0)
    /\ (pc = "done" /\ n \in SquaresTable => verdict = "False" /\ p = 0)
    /\ (p /= 0 \/ pc = "oddprime" => n >= 3 /\ n % 2 = 1 /\ n \notin SquaresTable)

C5_Witness ==
    pc = "done" /\ n \in SquaresTable /\ n > MaxN /\ n % 2 = 1 /\ verdict = "False" /\ p = 0

\* C9: for the odd non-square n >= 3 that is_prime passes on, oddprime
\* terminates and returns the smallest odd prime p, scanning upward from 3,
\* with Kronecker symbol (p | n) = -1; no smaller odd prime has symbol -1
\* and p is coprime to n.
C9_Oddprime ==
    /\ [](pc = "oddprime" =>
            /\ p >= 3 /\ IsPrimeNumber(p)
            /\ \A q \in 3..(p - 1) : IsPrimeNumber(q) => kronecker_symbol(q, n) /= -1)
    /\ [](pc = "mat_pow" =>
            /\ p >= 3 /\ IsPrimeNumber(p)
            /\ kronecker_symbol(p, n) = -1
            /\ \A q \in 3..(p - 1) : IsPrimeNumber(q) => kronecker_symbol(q, n) /= -1
            /\ Coprime(p, n))
    /\ ((pc = "oddprime") ~> (pc = "mat_pow"))

C9_Witness ==
    pc = "mat_pow" /\ p >= 7 /\ e = n /\ kronecker_symbol(p, n) = -1

\* every field element the current step of the computation holds or builds:
\* a, the entries of M, result and base, the products and sums of the two
\* matrix multiplications of the next loop iteration, and the elements of
\* the final matrix-vector product and the target
MatEntries(A) == {A[i][j] : i \in 1..2, j \in 1..2}

MatMulProducts(A, B) == {mul(A[i][k], B[k][j]) : i \in 1..2, j \in 1..2, k \in 1..2}

Constructed ==
    IF pc \notin {"mat_pow", "done"} \/ a = None THEN {}
    ELSE {a} \cup MatEntries(M) \cup MatEntries(result) \cup MatEntries(base)
         \cup MatMulProducts(base, result) \cup MatEntries(mat_mul(base, result))
         \cup MatMulProducts(base, base) \cup MatEntries(mat_mul(base, base))
         \cup LET r   == myisprime_tail(n, a, result)
                  one == QuadraticFieldElement(1, 0, a.c, a.n)
              IN  {one, r.target, r.xp[1], r.xp[2]}
                  \cup {mul(result[i][k], <<a, one>>[k]) : i \in 1..2, k \in 1..2}
         \cup (IF pc = "done" THEN {xp[1], xp[2]} ELSE {})

IdentityLike(MM) ==
    [i \in 1..2 |-> [j \in 1..2 |->
        IF MM[i][j].t = "QFE"
        THEN [t |-> "QFE", u |-> (IF i = j THEN 1 ELSE 0) % MM[i][j].n, v |-> 0,
              c |-> MM[i][j].c, n |-> MM[i][j].n]
        ELSE [t |-> "int", val |-> IF i = j THEN 1 ELSE 0]]]

RECURSIVE MatPower(_, _)
\* the k-fold product of MM by repeated multiplication
MatPower(MM, k) == IF k = 0 THEN IdentityLike(MM) ELSE mat_mul(MatPower(MM, k - 1), MM)

RECURSIVE BitLength(_)
BitLength(k) == IF k = 0 THEN 0 ELSE 1 + BitLength(k \div 2)

\* C6: mat_pow(M, e) is the e-fold product of M (the identity for e = 0);
\* the accumulator starts at the identity in the type and with the
\* parameters of M; after k iterations the k low bits of the exponent have
\* been consumed (result = M^(exponent mod 2^k), base = M^(2^k)); the loop
\* ends with e = 0.
C6_MatPow ==
    /\ [](pc \in {"mat_pow", "returned"} =>
            \E k \in 0..BitLength(exponent) :
                /\ e = exponent \div ipow(2, k)
                /\ base = MatPower(M, ipow(2, k))
                /\ result = MatPower(M, exponent % ipow(2, k)))
    /\ [](pc = "mat_pow" /\ e = exponent => result = IdentityLike(M))
    /\ [](pc = "returned" => e = 0 /\ ret = MatPower(M, exponent))
    /\ ((pc = "call") ~> (pc = "returned"))

C6_Witness ==
    /\ pc = "returned" /\ exponent = MaxE /\ isQFE(M[1][1])
    /\ ret = MatPower(M, MaxE) /\ ret /= IdentityLike(M) /\ ret /= M

\* x is the scalar k re-expressed as a field element, the very same number
SameNumber(k, x) == isQFE(x) /\ x.v = 0 /\ x.u = k.val

\* x is the scalar k re-expressed as a field element, reduced modulo n
SameResidue(k, x) == isQFE(x) /\ x.v = 0 /\ x.u = k.val % x.n

LiftedOp ==
    LET ls == QuadraticFieldElement(args.s, 0, args.x.c, args.x.n)
    IN  IF args.scalarLeft THEN ring_op(args.op, ls, args.x)
        ELSE ring_op(args.op, args.x, ls)

\* C8 as stated: add, sub and mul between a plain int s and a field element
\* x succeed in both operand orders and return what the operation returns
\* on QuadraticFieldElement(s, 0, c, n) and x in that order.
C8_MixedBothOrders ==
    pc = "returned" => isQFE(ret) /\ ret = LiftedOp

\* C8, amended: the operation succeeds and returns the result on the lifted
\* scalar when the scalar is the right operand (add, sub, mul) or the left
\* operand of mul; add and sub with the scalar on the left raise TypeError.
C8_MixedSupportedOrders ==
    pc = "returned" =>
        IF args.scalarLeft /\ args.op \in {"add", "sub"}
        THEN ret = TypeError
        ELSE isQFE(ret) /\ ret = LiftedOp

C8_Witness ==
    /\ pc = "returned"
    /\ args.scalarLeft /\ args.op = "mul" /\ args.s = -1
    /\ args.x.u = 1 /\ args.x.v = 1
    /\ isQFE(ret) /\ ret.u = args.x.n - 1 /\ ret.v = args.x.n - 1

====
